---- MODULE Spec2Model ----
(***************************************************************************)
(* BufferedImmutableIterable (indexify.py): a read-only, indexable view of *)
(* a single-pass iterable.  Elements are read from the iterator on demand  *)
(* and remembered in a deque, optionally bounded by maxlen.                *)
(***************************************************************************)
EXTENDS Integers, Sequences, FiniteSets, TLC

\* Longest iterable handed to the constructor.
MaxLen == 5
\* Largest maxlen handed to the constructor (besides None).
MaxCap == 2
\* Indices and slice bounds range over -(MaxLen + Beyond) .. MaxLen + Beyond.
Beyond == 2
\* Slice steps range over -MaxStep .. MaxStep.
MaxStep == 2
\* Lazy slice iteration: the longest iterable, the largest maxlen, and the
\* start and stop of islice range over -IterArg .. IterArg.
IterLen == 2
IterCap == 1
IterArg == 2

\* Python's None, and an int n, as values that compare with each other.
None == << >>
Some(n) == << n >>

\* The iterable of n elements: 10, 20, ..., 10 * n (pairwise distinct).
Iterable(n) == [i \in 1..n |-> 10 * i]

VARIABLES
    items,      \* the iterable given to __init__ (what the iterator yields)
    maxlen,     \* self._maxlen: None or Some(C)
    buffer,     \* self._buffer: the deque's content, oldest first
    read,       \* self._read
    iterator,   \* TRUE while self._iterator is not None
    nexts,      \* how many times next(self._iterator) has been called
    last,       \* the call the caller made last, its outcome and the state before it
    its         \* the generators made by islice(): their arguments, locals and yields

vars == <<items, maxlen, buffer, read, iterator, nexts, last, its>>

\* The mutable fields of the object, as one value.
Self == [buffer |-> buffer, read |-> read, iterator |-> iterator, nexts |-> nexts]

NoSlice == [start |-> None, stop |-> None, step |-> None]
NoCall == [op |-> "none", index |-> 0, s |-> NoSlice, err |-> "", val |-> << >>,
           pre |-> [buffer |-> << >>, read |-> 0, iterator |-> TRUE, nexts |-> 0]]

\* A generator of _islice.  status: "unused" (not made), "new" (made, not
\* started), "yielded" (suspended at the yield), "done" (returned) or
\* "error" (ended by an exception, err).  s is the slice it was made with;
\* current, stop, step and start_negative are its locals; out is what it has
\* yielded.  first keeps the start after trimming, and why tells whether it
\* returned on a change of sign ("sign") or on passing stop ("stop").
NoIter == [status |-> "unused", s |-> NoSlice, current |-> 0, stop |-> None,
           step |-> 1, start_negative |-> FALSE, out |-> << >>, err |-> "",
           first |-> 0, why |-> ""]
Slots == 1..2

\* As deque_append, but a full deque keeps what it has and drops the new
\* element.
deque_append_keep_oldest(buf, value) ==
    IF maxlen = None THEN Append(buf, value)
    ELSE IF Len(buf) >= maxlen[1] THEN buf
    ELSE Append(buf, value)

\* As deque_append, but maxlen is ignored: nothing is ever dropped.
deque_append_unbounded(buf, value) == Append(buf, value)

\* deque.append under maxlen: a full deque drops its oldest element; a deque
\* of maxlen 0 stays empty.
deque_append(buf, value) ==
    IF maxlen = None THEN Append(buf, value)
    ELSE IF maxlen[1] = 0 THEN << >>
    ELSE IF Len(buf) >= maxlen[1] THEN Append(Tail(buf), value)
    ELSE Append(buf, value)

\* As deque_getitem, but an index outside the deque wraps around, as in a
\* ring buffer.
deque_getitem_wrap(buf, i) ==
    IF Len(buf) = 0 THEN [err |-> "IndexError", val |-> << >>]
    ELSE [err |-> "", val |-> << buf[(i % Len(buf)) + 1] >>]

\* deque.__getitem__: i counts from the end when negative; IndexError outside.
deque_getitem(buf, i) ==
    LET At(j) == IF j < 0 \/ j >= Len(buf)
                 THEN [err |-> "IndexError", val |-> << >>]
                 ELSE [err |-> "", val |-> << buf[j + 1] >>]
    IN  At(IF i < 0 THEN i + Len(buf) ELSE i)

\* As _read_one, but the iterator is kept after StopIteration.
_read_one_forgetful(self) ==
    IF ~self.iterator THEN [self |-> self, ret |-> FALSE]
    ELSE IF self.read >= Len(items)
         THEN [self |-> [self EXCEPT !.nexts = @ + 1], ret |-> FALSE]
         ELSE [self |-> [self EXCEPT !.buffer = deque_append(@, items[self.read + 1]),
                                     !.read = @ + 1,
                                     !.nexts = @ + 1],
               ret |-> TRUE]

\* Results are records: self is the object's fields after the call, ret the
\* value returned; err names the exception raised ("" for none) and val
\* holds what was returned or yielded.  A LET operator applied to a call's
\* result is the code that runs after that call.
_read_one(self) ==
    IF ~self.iterator THEN [self |-> self, ret |-> FALSE]
    ELSE IF self.read >= Len(items)
         THEN \* StopIteration
              [self |-> [self EXCEPT !.iterator = FALSE, !.nexts = @ + 1],
               ret |-> FALSE]
         ELSE [self |-> [self EXCEPT !.buffer = deque_append(@, items[self.read + 1]),
                                     !.read = @ + 1,
                                     !.nexts = @ + 1],
               ret |-> TRUE]

\* As _len_at_least, but the loop runs while _read <= amount.
RECURSIVE _len_at_least_over(_, _)
_len_at_least_over(self, amount) ==
    LET Read(r) == IF ~r.ret THEN [self |-> r.self, ret |-> FALSE]
                   ELSE _len_at_least_over(r.self, amount)
    IN  IF self.read <= amount THEN Read(_read_one(self))
        ELSE [self |-> self, ret |-> TRUE]

RECURSIVE _len_at_least(_, _)
_len_at_least(self, amount) ==
    LET Read(r) == IF ~r.ret THEN [self |-> r.self, ret |-> FALSE]
                   ELSE _len_at_least(r.self, amount)
    IN  IF self.read < amount THEN Read(_read_one(self))
        ELSE [self |-> self, ret |-> TRUE]

\* As _len_at_most, but the loop runs while _read < amount.
RECURSIVE _len_at_most_short(_, _)
_len_at_most_short(self, amount) ==
    LET Read(r) == IF ~r.ret THEN [self |-> r.self, ret |-> TRUE]
                   ELSE _len_at_most_short(r.self, amount)
    IN  IF self.read < amount THEN Read(_read_one(self))
        ELSE [self |-> self, ret |-> FALSE]

RECURSIVE _len_at_most(_, _)
_len_at_most(self, amount) ==
    LET Read(r) == IF ~r.ret THEN [self |-> r.self, ret |-> TRUE]
                   ELSE _len_at_most(r.self, amount)
    IN  IF self.read <= amount THEN Read(_read_one(self))
        ELSE [self |-> self, ret |-> FALSE]

\* As __len__, but the answer is what has been read so far; nothing is read.
__len__of_read(self) == [self |-> self, ret |-> self.read]

\* As __len__, but the answer is the length of the buffer.
RECURSIVE __len__of_buffer(_)
__len__of_buffer(self) ==
    LET Read(r) == IF r.ret THEN __len__of_buffer(r.self)
                   ELSE [self |-> r.self, ret |-> Len(r.self.buffer)]
    IN  Read(_read_one(self))

RECURSIVE __len__(_)
__len__(self) ==
    LET Read(r) == IF r.ret THEN __len__(r.self)
                   ELSE [self |-> r.self, ret |-> r.self.read]
    IN  Read(_read_one(self))

\* As _get_item, but the buffer is indexed from its front: self._buffer[index].
_get_item_from_front(self, index) ==
    LET Item(s, e) == [self |-> s, err |-> e.err, val |-> e.val]
        Reached(r, idx) ==
            IF ~r.ret THEN [self |-> r.self, err |-> "IndexError", val |-> << >>]
            ELSE Item(r.self, deque_getitem(r.self.buffer, idx))
        Resolved(n) == Reached(_len_at_least(n.self, index + n.ret + 1), index + n.ret)
    IN  IF index < 0 /\ maxlen # None /\ -index > maxlen[1]
        THEN [self |-> self, err |-> "IndexError", val |-> << >>]
        ELSE Resolved(IF index < 0 THEN __len__(self) ELSE [self |-> self, ret |-> 0])

\* As _get_item, but reading only up to index instead of index + 1.
_get_item_short(self, index) ==
    LET Item(s, e) == [self |-> s, err |-> e.err, val |-> e.val]
        Reached(r, idx) ==
            IF ~r.ret THEN [self |-> r.self, err |-> "IndexError", val |-> << >>]
            ELSE Item(r.self, deque_getitem(r.self.buffer, idx - r.self.read))
        Resolved(n) == Reached(_len_at_least(n.self, index + n.ret), index + n.ret)
    IN  IF index < 0 /\ maxlen # None /\ -index > maxlen[1]
        THEN [self |-> self, err |-> "IndexError", val |-> << >>]
        ELSE Resolved(IF index < 0 THEN __len__(self) ELSE [self |-> self, ret |-> 0])

\* As _get_item, but a negative index is not moved by len(self).
_get_item_no_len(self, index) ==
    LET Item(s, e) == [self |-> s, err |-> e.err, val |-> e.val]
        Reached(r, idx) ==
            IF ~r.ret THEN [self |-> r.self, err |-> "IndexError", val |-> << >>]
            ELSE Item(r.self, deque_getitem(r.self.buffer, idx - r.self.read))
    IN  IF index < 0 /\ maxlen # None /\ -index > maxlen[1]
        THEN [self |-> self, err |-> "IndexError", val |-> << >>]
        ELSE Reached(_len_at_least(self, index + 1), index)

\* As _get_item, but without the early test of a negative index against maxlen.
_get_item_no_maxlen_test(self, index) ==
    LET Item(s, e) == [self |-> s, err |-> e.err, val |-> e.val]
        Reached(r, idx) ==
            IF ~r.ret THEN [self |-> r.self, err |-> "IndexError", val |-> << >>]
            ELSE Item(r.self, deque_getitem(r.self.buffer, idx - r.self.read))
        Resolved(n) == Reached(_len_at_least(n.self, index + n.ret + 1), index + n.ret)
    IN  Resolved(IF index < 0 THEN __len__(self) ELSE [self |-> self, ret |-> 0])

\* Resolved: after `index += len(self)` (n.ret is 0 for an index >= 0);
\* Reached: after _len_at_least(index + 1); Item: after self._buffer[...].
_get_item(self, index) ==
    LET Item(s, e) == [self |-> s, err |-> e.err, val |-> e.val]
        Reached(r, idx) ==
            IF ~r.ret THEN [self |-> r.self, err |-> "IndexError", val |-> << >>]
            ELSE Item(r.self, deque_getitem(r.self.buffer, idx - r.self.read))
        Resolved(n) == Reached(_len_at_least(n.self, index + n.ret + 1), index + n.ret)
    IN  IF index < 0 /\ maxlen # None /\ -index > maxlen[1]
        THEN [self |-> self, err |-> "IndexError", val |-> << >>]
        ELSE Resolved(IF index < 0 THEN __len__(self) ELSE [self |-> self, ret |-> 0])

\* validate_slice, for components that are None or ints: the defaults of
\* step and start, and the ValueError for a step of zero.
validate_slice(s) ==
    LET Start(step) == IF s.start = None THEN (IF step > 0 THEN 0 ELSE -1)
                       ELSE s.start[1]
        Checked(step) ==
            IF step = 0
            THEN [err |-> "ValueError", start |-> 0, stop |-> None, step |-> 0]
            ELSE [err |-> "", start |-> Start(step), stop |-> s.stop, step |-> step]
    IN  Checked(IF s.step = None THEN 1 ELSE s.step[1])

\* As FloorDiv, but rounding towards zero, as int(a / b) does.
FloorDiv_truncating(a, b) ==
    IF (a >= 0) = (b > 0) THEN (IF b > 0 THEN a \div b ELSE (-a) \div (-b))
    ELSE -(IF b > 0 THEN (-a) \div b ELSE a \div (-b))

\* Python's floor division, for a divisor of either sign.
FloorDiv(a, b) == IF b > 0 THEN a \div b ELSE (-a) \div (-b)

\* The trimming of a start index that lies "before" the valid indices.
\* Returns the object's fields and the corrected start.
_islice_start(self, start, step) ==
    LET Trim(n, current, limit(_)) ==
            [self |-> n.self,
             current |-> current - FloorDiv(current - limit(n.ret), step) * step]
        Last(len) == len - 1
        First(len) == -len
        Forwards(b, current) ==
            IF ~b.ret THEN Trim(__len__(b.self), current, First)
            ELSE [self |-> b.self, current |-> current]
        Second(c) ==
            IF step > 0 /\ c.current < 0
            THEN Forwards(_len_at_least(c.self, -c.current), c.current)
            ELSE c
        Backwards(a) ==
            IF ~a.ret THEN Trim(__len__(a.self), start, Last)
            ELSE [self |-> a.self, current |-> start]
    IN  Second(IF step < 0 /\ start >= 0
               THEN Backwards(_len_at_least(self, start + 1))
               ELSE [self |-> self, current |-> start])

\* As valid_index, but a stop of the same sign is also probed for.
valid_index_probing(self, current, stop, step, start_negative) ==
    LET Between(low, high) ==
            IF (high < 0) = (low < 0)
            THEN [self |-> _len_at_most(self, high).self, ret |-> low < high]
            ELSE IF high < 0
            THEN _len_at_least(self, low - high + 1)
            ELSE _len_at_most(self, high - low - 1)
    IN  IF (current < 0) # start_negative
        THEN [self |-> self, ret |-> FALSE]
        ELSE IF stop = None
        THEN _len_at_least(self, IF current < 0 THEN -current ELSE current + 1)
        ELSE IF step > 0 THEN Between(current, stop[1])
        ELSE Between(stop[1], current)

\* valid_index: whether current is still before stop.
valid_index(self, current, stop, step, start_negative) ==
    LET Between(low, high) ==
            IF (high < 0) = (low < 0)
            THEN [self |-> self, ret |-> low < high]
            ELSE IF high < 0
            THEN _len_at_least(self, low - high + 1)
            ELSE _len_at_most(self, high - low - 1)
    IN  IF (current < 0) # start_negative
        THEN [self |-> self, ret |-> FALSE]
        ELSE IF stop = None
        THEN _len_at_least(self, IF current < 0 THEN -current ELSE current + 1)
        ELSE IF step > 0 THEN Between(current, stop[1])
        ELSE Between(stop[1], current)

\* The loop of _islice: out is what has been yielded so far.  An IndexError
\* from self[current] ends it.
RECURSIVE _islice_loop(_, _, _, _, _, _)
_islice_loop(self, current, stop, step, start_negative, out) ==
    LET Got(g) ==
            IF g.err # "" THEN [self |-> g.self, err |-> g.err, val |-> out]
            ELSE _islice_loop(g.self, current + step, stop, step,
                              start_negative, out \o g.val)
        Valid(v) ==
            IF ~v.ret THEN [self |-> v.self, err |-> "", val |-> out]
            ELSE Got(_get_item(v.self, current))
    IN  Valid(valid_index(self, current, stop, step, start_negative))

\* As _islice, but the length is taken first, the way
\* slice.indices(len(self)) would need it.
_islice_eager(self, s) ==
    LET From(c, v) ==
            _islice_loop(c.self, c.current, v.stop, v.step, c.current < 0, << >>)
        Validated(n, v) ==
            IF v.err # "" THEN [self |-> n.self, err |-> v.err, val |-> << >>]
            ELSE From(_islice_start(n.self, v.start, v.step), v)
    IN  Validated(__len__(self), validate_slice(s))

\* _islice run to its end.
_islice(self, s) ==
    LET From(c, v) ==
            _islice_loop(c.self, c.current, v.stop, v.step, c.current < 0, << >>)
        Validated(v) ==
            IF v.err # "" THEN [self |-> self, err |-> v.err, val |-> << >>]
            ELSE From(_islice_start(self, v.start, v.step), v)
    IN  Validated(validate_slice(s))

\* __getitem__ with a slice: tuple(self._islice(index)); an exception leaves
\* no tuple.
__getitem__(self, s) ==
    LET Tuple(r) == IF r.err # "" THEN [r EXCEPT !.val = << >>] ELSE r
    IN  Tuple(_islice(self, s))

\* One turn of `while valid_index(): yield self[current]`: the generator
\* returns, raises what self[current] raised, or yields.
_islice_test(self, it) ==
    LET Got(g) ==
            IF g.err # ""
            THEN [self |-> g.self, it |-> [it EXCEPT !.status = "error", !.err = g.err]]
            ELSE [self |-> g.self,
                  it |-> [it EXCEPT !.status = "yielded", !.out = @ \o g.val]]
        Valid(v) ==
            IF ~v.ret
            THEN [self |-> v.self,
                  it |-> [it EXCEPT !.status = "done",
                                    !.why = IF (it.current < 0) # it.start_negative
                                            THEN "sign" ELSE "stop"]]
            ELSE Got(_get_item(v.self, it.current))
    IN  Valid(valid_index(self, it.current, it.stop, it.step, it.start_negative))

\* As _islice_resume, but a resumed generator does not advance current.
_islice_resume_stuck(self, it) ==
    LET Trimmed(c, v) ==
            _islice_test(c.self, [it EXCEPT !.current = c.current, !.stop = v.stop,
                                            !.step = v.step, !.first = c.current,
                                            !.start_negative = c.current < 0])
        Validated(v) ==
            IF v.err # ""
            THEN [self |-> self, it |-> [it EXCEPT !.status = "error", !.err = v.err]]
            ELSE Trimmed(_islice_start(self, v.start, v.step), v)
    IN  IF it.status = "new" THEN Validated(validate_slice(it.s))
        ELSE _islice_test(self, it)

\* next() on a generator of _islice: a new one runs from the top of _islice
\* to its first yield, a suspended one does `current += step` and goes round
\* the loop.
_islice_resume(self, it) ==
    LET Trimmed(c, v) ==
            _islice_test(c.self, [it EXCEPT !.current = c.current, !.stop = v.stop,
                                            !.step = v.step, !.first = c.current,
                                            !.start_negative = c.current < 0])
        Validated(v) ==
            IF v.err # ""
            THEN [self |-> self, it |-> [it EXCEPT !.status = "error", !.err = v.err]]
            ELSE Trimmed(_islice_start(self, v.start, v.step), v)
    IN  IF it.status = "new" THEN Validated(validate_slice(it.s))
        ELSE _islice_test(self, [it EXCEPT !.current = @ + it.step])

Init ==
    /\ its = [i \in Slots |-> NoIter]
    /\ items \in {Iterable(n) : n \in 0..MaxLen}
    /\ maxlen \in {None} \cup {Some(c) : c \in 0..MaxCap}
    /\ buffer = << >>
    /\ read = 0
    /\ iterator = TRUE
    /\ nexts = 0
    /\ last = NoCall

Indices == -(MaxLen + Beyond) .. (MaxLen + Beyond)
Bounds == {None} \cup {Some(i) : i \in Indices}
Steps == {None} \cup {Some(k) : k \in -MaxStep..MaxStep}

\* The call ends: the object's fields are self, and the caller holds the call.
Called(self, call) ==
    /\ buffer' = self.buffer
    /\ read' = self.read
    /\ iterator' = self.iterator
    /\ nexts' = self.nexts
    /\ last' = call
    /\ UNCHANGED <<items, maxlen, its>>

\* x[index] for an int index.
GetItem ==
    /\ last.op = "none"
    /\ \E index \in Indices :
         LET Done(r) == Called(r.self, [NoCall EXCEPT !.op = "get", !.index = index,
                                            !.err = r.err, !.val = r.val, !.pre = Self])
         IN  Done(_get_item(Self, index))

\* len(x)
Length ==
    /\ last.op = "none"
    /\ LET Done(r) == Called(r.self, [NoCall EXCEPT !.op = "len", !.val = << r.ret >>,
                                          !.pre = Self])
       IN  Done(__len__(Self))

\* x[start:stop:step]
GetSlice ==
    /\ last.op = "none"
    /\ \E start \in Bounds, stop \in Bounds, step \in Steps :
         LET Done(s, r) == Called(r.self, [NoCall EXCEPT !.op = "slice", !.s = s,
                                               !.err = r.err, !.val = r.val, !.pre = Self])
             Sliced(s) == Done(s, __getitem__(Self, s))
         IN  Sliced([start |-> start, stop |-> stop, step |-> step])

\* self._read_one()
ReadOne ==
    /\ last.op = "none"
    /\ LET Done(r) == Called(r.self, [NoCall EXCEPT !.op = "read_one",
                                          !.val = << r.ret >>, !.pre = Self])
       IN  Done(_read_one(Self))

\* self._len_at_least(amount)
LenAtLeast ==
    /\ last.op = "none"
    /\ \E amount \in Indices :
         LET Done(r) == Called(r.self, [NoCall EXCEPT !.op = "at_least", !.index = amount,
                                            !.val = << r.ret >>, !.pre = Self])
         IN  Done(_len_at_least(Self, amount))

\* self._len_at_most(amount)
LenAtMost ==
    /\ last.op = "none"
    /\ \E amount \in Indices :
         LET Done(r) == Called(r.self, [NoCall EXCEPT !.op = "at_most", !.index = amount,
                                            !.val = << r.ret >>, !.pre = Self])
         IN  Done(_len_at_most(Self, amount))

\* The caller takes the outcome of its call and goes on to the next one.
Return ==
    /\ last.op # "none"
    /\ last' = NoCall
    /\ UNCHANGED <<items, maxlen, buffer, read, iterator, nexts, its>>

Next == GetItem \/ Length \/ GetSlice \/ ReadOne \/ LenAtLeast \/ LenAtMost \/ Return

Spec == Init /\ [][Next]_vars

(***************************************************************************)
(* Lazy slicing: x.islice(...) makes a generator, and each next() on it    *)
(* runs _islice up to its next yield.  Two generators over one object may  *)
(* be advanced in any order.                                               *)
(***************************************************************************)

InitIter ==
    /\ its = [i \in Slots |-> NoIter]
    /\ items \in {Iterable(n) : n \in 0..IterLen}
    /\ maxlen \in {None} \cup {Some(c) : c \in 0..IterCap}
    /\ buffer = << >>
    /\ read = 0
    /\ iterator = TRUE
    /\ nexts = 0
    /\ last = NoCall

IterBounds == {None} \cup {Some(i) : i \in -IterArg..IterArg}

\* x.islice(start, stop, step): no code of _islice runs yet.  The second
\* generator is made after the first; it is the other consumer of the shared
\* iterator and runs to the end of its range (stop is None): how far it has
\* pulled when the first one resumes is chosen by the interleaving.
Islice(i) ==
    /\ last.op = "none"
    /\ its[i].status = "unused"
    /\ \A j \in Slots : j < i => its[j].status # "unused"
    /\ \E start \in IterBounds, step \in Steps,
          stop \in IF i = 1 THEN IterBounds ELSE {None} :
         its' = [its EXCEPT ![i] = [NoIter EXCEPT !.status = "new",
                                       !.s = [start |-> start, stop |-> stop,
                                              step |-> step]]]
    /\ UNCHANGED <<items, maxlen, buffer, read, iterator, nexts, last>>

\* next() on generator i.
IterNext(i) ==
    /\ last.op = "none"
    /\ its[i].status \in {"new", "yielded"}
    /\ LET Done(r) == /\ buffer' = r.self.buffer
                      /\ read' = r.self.read
                      /\ iterator' = r.self.iterator
                      /\ nexts' = r.self.nexts
                      /\ its' = [its EXCEPT ![i] = r.it]
       IN  Done(_islice_resume(Self, its[i]))
    /\ UNCHANGED <<items, maxlen, last>>

NextIter == \E i \in Slots : Islice(i) \/ IterNext(i)

SpecIter == InitIter /\ [][NextIter]_vars

(***************************************************************************)
(* Properties.  `last` holds the call just made (op, arguments), what it   *)
(* gave (err, val) and the object's fields before it (pre); the variables  *)
(* hold the fields after it.                                               *)
(***************************************************************************)

Unbounded == maxlen = None
Max(a, b) == IF a >= b THEN a ELSE b
Min(a, b) == IF a <= b THEN a ELSE b

\* range(start, stop, step), step # 0
RECURSIVE PyRange(_, _, _)
PyRange(start, stop, step) ==
    IF (step > 0 /\ start < stop) \/ (step < 0 /\ start > stop)
    THEN << start >> \o PyRange(start + step, stop, step)
    ELSE << >>

\* Python's slicing of a materialized sequence S: the indices are those of
\* slice(start, stop, step).indices(len(S)).
PySlice(S, s) ==
    LET n == Len(S)
        step == IF s.step = None THEN 1 ELSE s.step[1]
        lower == IF step < 0 THEN -1 ELSE 0
        upper == IF step < 0 THEN n - 1 ELSE n
        Clamp(i) == IF i < 0 THEN Max(i + n, lower) ELSE Min(i, upper)
        start == IF s.start = None THEN (IF step < 0 THEN upper ELSE lower)
                 ELSE Clamp(s.start[1])
        stop == IF s.stop = None THEN (IF step < 0 THEN lower ELSE upper)
                ELSE Clamp(s.stop[1])
        r == PyRange(start, stop, step)
    IN  [k \in 1..Len(r) |-> S[r[k] + 1]]

\* C1: for an unbounded buffer, x[start:stop:step] with step # 0 gives
\* exactly what Python's slicing gives on the materialized iterable,
\* whatever the signs of start, stop and step and however far start or stop
\* lie beyond the ends.
C1_SliceIsPythonSlice ==
    (last.op = "slice" /\ Unbounded /\ last.s.step # Some(0))
        => (last.err = "" /\ last.val = PySlice(items, last.s))

\* C2: for an unbounded buffer, in any state, x[n] with 0 <= n < len(items)
\* succeeds and gives items[n].
C2_GetIsItem ==
    (last.op = "get" /\ Unbounded /\ 0 <= last.index /\ last.index < Len(items))
        => (last.err = "" /\ last.val = << items[last.index + 1] >>)

C2_Witness ==
    /\ last.op = "get" /\ Unbounded /\ last.index = 3
    /\ last.pre.read = 1 /\ last.val = << 40 >> /\ Len(items) = 5

\* C3: for a negative n with |n| <= len(x), and |n| <= maxlen when bounded,
\* x[n] succeeds and gives what x[len(x) + n] gives.
C3_NegativeIndex ==
    (/\ last.op = "get" /\ last.index < 0 /\ -last.index <= Len(items)
     /\ maxlen # None => -last.index <= maxlen[1])
        => /\ last.err = ""
           /\ LET n == __len__(Self)
                  g == _get_item(n.self, n.ret + last.index)
              IN  g.err = "" /\ g.val = last.val

C3_Witness ==
    /\ last.op = "get" /\ last.index = -2 /\ maxlen = Some(2)
    /\ Len(items) = 5 /\ last.pre.read = 1 /\ last.val = << 40 >>

\* C4: for a buffer bounded by C that has read k > C elements, x[k - C - 1]
\* raises IndexError and x[i] succeeds for every i in k - C .. k - 1.
C4_Eviction ==
    (last.op = "get" /\ maxlen # None /\ last.pre.read > maxlen[1])
        => /\ last.index = last.pre.read - maxlen[1] - 1
                => last.err = "IndexError"
           /\ (last.pre.read - maxlen[1] <= last.index
               /\ last.index <= last.pre.read - 1) => last.err = ""

\* items = [10, 20, 30, 40, 50], maxlen = 2, all five read: x[2] fails.
C4_Witness ==
    /\ last.op = "get" /\ maxlen = Some(2) /\ items = Iterable(5)
    /\ last.pre.read = 5 /\ last.index = 2 /\ last.err = "IndexError"

\* C5: len(x), in any state and either mode, gives the number of elements of
\* the iterable; a second len(x) gives the same and leaves _read and the
\* buffer as they are.
C5_Length ==
    last.op = "len"
        => /\ last.val = << Len(items) >>
           /\ LET again == __len__(Self)
              IN  /\ << again.ret >> = last.val
                  /\ again.self.read = read
                  /\ again.self.buffer = buffer

C5_Witness ==
    /\ last.op = "len" /\ maxlen = Some(1) /\ last.pre.read = 2
    /\ last.pre.iterator /\ last.val = << 4 >>

\* C6: a slice with step 0 raises ValueError before anything is read: _read,
\* the buffer and the iterator are as before the call.
C6_ZeroStep ==
    (last.op = "slice" /\ last.s.step = Some(0))
        => /\ last.err = "ValueError"
           /\ Self = last.pre

C6_Witness ==
    /\ last.op = "slice" /\ last.s.step = Some(0) /\ last.s.start = Some(4)
    /\ last.pre.read = 2 /\ last.pre.iterator /\ Len(items) = 5
    /\ last.err = "ValueError"

\* C7: x[index] with index >= 0 reads no more than needed: afterwards, on
\* success or failure, _read <= max(_read before, index + 1), and _read is
\* unchanged when it was already >= index + 1.
C7_GetReadsNoMore ==
    (last.op = "get" /\ last.index >= 0)
        => /\ read <= Max(last.pre.read, last.index + 1)
           /\ last.pre.read >= last.index + 1 => read = last.pre.read

C7_Witness ==
    /\ last.op = "get" /\ last.index = 2 /\ last.pre.read = 1 /\ read = 3
    /\ Len(items) = 5 /\ last.err = ""

\* C8: for an unbounded buffer, a slice with step > 0 and
\* 0 <= start <= stop <= _read asks the iterator for nothing: _read, the
\* buffer and the iterator are unchanged.
C8_SliceInsideRead ==
    LET v == validate_slice(last.s)
    IN  (/\ last.op = "slice" /\ Unbounded /\ v.err = "" /\ v.step > 0
         /\ v.stop # None /\ 0 <= v.start /\ v.start <= v.stop[1]
         /\ v.stop[1] <= last.pre.read)
            => Self = last.pre

C8_Witness ==
    /\ last.op = "slice" /\ Unbounded /\ Len(items) = 5
    /\ last.s = [start |-> Some(1), stop |-> Some(3), step |-> Some(1)]
    /\ last.pre.read = 3 /\ last.pre.iterator /\ last.val = << 20, 30 >>

\* C9: for an unbounded buffer over L elements, x[index] raises IndexError
\* for every index >= L and every index < -L, and gives no value.
C9_OutOfRange ==
    (last.op = "get" /\ Unbounded
     /\ (last.index >= Len(items) \/ last.index < -Len(items)))
        => (last.err = "IndexError" /\ last.val = << >>)

C9_Witness ==
    /\ last.op = "get" /\ Unbounded /\ Len(items) = 2 /\ last.index = -3
    /\ last.err = "IndexError" /\ read = 2

\* C10: for a buffer bounded by C, x[index] with index < 0 and -index > C
\* raises IndexError at once: nothing is asked of the iterator, and _read and
\* the buffer are unchanged.
C10_BeyondMaxlen ==
    (last.op = "get" /\ maxlen # None /\ last.index < 0
     /\ -last.index > maxlen[1])
        => (last.err = "IndexError" /\ Self = last.pre)

C10_Witness ==
    /\ last.op = "get" /\ maxlen = Some(2) /\ last.index = -3
    /\ last.pre.read = 1 /\ last.pre.iterator /\ Len(items) = 5
    /\ last.err = "IndexError"

\* C11: slicing can raise IndexError only when maxlen is not None: for an
\* unbounded buffer no slice with step # 0 ends in IndexError.
C11_NoIndexErrorUnbounded ==
    (last.op = "slice" /\ Unbounded /\ last.s.step # Some(0))
        => last.err # "IndexError"

\* C13: with maxlen C the buffer is never longer than C and holds the last
\* min(_read, C) elements read, in order; without maxlen it holds all the
\* elements read.
C13_BufferIsSuffix ==
    /\ Len(buffer) = (IF Unbounded THEN read ELSE Min(read, maxlen[1]))
    /\ buffer = SubSeq(items, read - Len(buffer) + 1, read)

C13_Witness ==
    /\ maxlen = Some(2) /\ read = 4 /\ buffer = << 30, 40 >>
    /\ last.op = "at_least" /\ last.pre.read = 1

\* C14 as stated: _read >= len(buffer), with equality if and only if the
\* buffer is unbounded or fewer than C elements have been read.
C14_ReadVersusBuffer ==
    /\ read >= Len(buffer)
    /\ (read = Len(buffer)) <=> (Unbounded \/ read < maxlen[1])

\* C14, amended: _read >= len(buffer), with equality if and only if the
\* buffer is unbounded or at most C elements have been read.
C14_ReadVersusBufferAtMost ==
    /\ read >= Len(buffer)
    /\ (read = Len(buffer)) <=> (Unbounded \/ read <= maxlen[1])

C14_Witness ==
    /\ maxlen = Some(2) /\ read = 2 /\ Len(buffer) = 2
    /\ last.op = "get" /\ last.index = 1 /\ last.pre.read = 0

\* The iterator has raised StopIteration: next() was called once more than
\* it gave elements.
Exhausted == nexts > read

\* C15: once the iterator has raised StopIteration, no operation calls
\* next() again, and _read_one returns False and changes nothing.
C15_ExhaustionIsPermanent ==
    [][Exhausted => /\ nexts' = nexts /\ read' = read /\ buffer' = buffer
                    /\ ~iterator'
                    /\ _read_one(Self) = [self |-> Self, ret |-> FALSE]]_vars

C15_Witness ==
    /\ last.op = "read_one" /\ last.pre.nexts > last.pre.read
    /\ last.val = << FALSE >> /\ Self = last.pre /\ read = 3

\* C16: _len_at_most(n), in any state, returns True if and only if the
\* iterable has at most n elements, and reads at most one element past n.
C16_LenAtMost ==
    last.op = "at_most"
        => /\ last.val = << Len(items) <= last.index >>
           /\ read <= Max(last.pre.read, last.index + 1)

C16_Witness ==
    /\ last.op = "at_most" /\ last.index = 3 /\ Len(items) = 3
    /\ last.pre.read = 1 /\ last.val = << TRUE >> /\ maxlen = Some(1)

\* C19: with maxlen set, x[index] never gives a wrong element: a value
\* returned is the element of the iterable at that position (len + index
\* for a negative index), and a position already dropped from the buffer
\* gives IndexError.
C19_BoundedGetIsRight ==
    (last.op = "get" /\ maxlen # None)
        => LET pos == IF last.index < 0 THEN Len(items) + last.index
                      ELSE last.index
           IN  /\ last.err = "" => /\ 0 <= pos /\ pos < Len(items)
                                   /\ last.val = << items[pos + 1] >>
               /\ (0 <= pos /\ pos < read - maxlen[1]) => last.err = "IndexError"

C19_Witness ==
    /\ last.op = "get" /\ maxlen = Some(2) /\ last.index = 3
    /\ last.pre.read = 4 /\ Len(items) = 5 /\ last.val = << 40 >>

(***************************************************************************)
(* Properties of lazy slicing, under SpecIter.                             *)
(***************************************************************************)

Running(i) == its[i].status \in {"new", "yielded"}
Ended(i) == its[i].status \in {"done", "error"}

\* C12: slice iteration over a finite iterable ends after finitely many
\* steps: every next() on a suspended generator either ends it (normally or
\* by an exception) or yields one more element, and a generator never yields
\* more elements than the iterable has; and no step calls next() on the
\* iterator after it has raised StopIteration.
C12_IterationEnds ==
    /\ [](\A i \in Slots : Len(its[i].out) <= Len(items))
    /\ [][\A i \in Slots :
            (its[i].status = "yielded" /\ its'[i] # its[i])
                => \/ Ended(i)'
                   \/ /\ its'[i].status = "yielded"
                      /\ Len(its'[i].out) = Len(its[i].out) + 1]_vars
    /\ [][Exhausted => nexts' = nexts]_vars

C12_Witness ==
    /\ its[1].status = "done" /\ its[1].out = << 10, 20 >> /\ Len(items) = 2
    /\ its[1].s.step = Some(1) /\ Exhausted
    /\ its[2].status = "error" /\ its[2].err = "IndexError"

\* C17 as stated: the loop stops on a change of sign of current only once
\* the iterator is exhausted (the length is known).
C17_SignStopAfterDrain ==
    \A i \in Slots : its[i].why = "sign" => ~iterator

\* C17, amended: the loop stops on a change of sign from a negative start
\* only once the iterator is exhausted.
C17_SignStopFromNegativeAfterDrain ==
    \A i \in Slots :
        (its[i].why = "sign" /\ its[i].start_negative) => (~iterator /\ Exhausted)

C17_Witness ==
    /\ its[1].why = "sign" /\ its[1].start_negative /\ its[1].out = << 10, 20 >>
    /\ its[1].s.start = Some(-2) /\ ~iterator /\ maxlen = None

\* The generator has run the start trimming of _islice.
Trimmed(i) == its[i].status \in {"yielded", "done"}
              \/ (its[i].status = "error" /\ its[i].err # "ValueError")
\* The start and step after validate_slice.
Start(i) == validate_slice(its[i].s).start
Step(i) == validate_slice(its[i].s).step
\* A start past the end when going backwards; one before the beginning when
\* going forwards.
PastEnd(i) == Trimmed(i) /\ Step(i) < 0 /\ Start(i) >= 0 /\ Len(items) < Start(i) + 1
BeforeBeginning(i) == Trimmed(i) /\ Step(i) > 0 /\ Start(i) < 0 /\ -Start(i) > Len(items)
\* c is start + k * step for some k >= 0.
OnLattice(i, c) ==
    \E k \in 0 .. 2 * (MaxLen + Beyond + 1) : c = Start(i) + k * Step(i)

\* C18 as stated: a start past the end is corrected to the largest valid
\* index (in 0 .. L-1) of the form start + k * step, a start before the
\* beginning to the smallest valid negative index (in -L .. -1) of that
\* form; the correction exhausts the iterator.
C18_StartCorrection ==
    \A i \in Slots :
        /\ PastEnd(i) =>
             /\ its[i].first \in 0 .. Len(items) - 1
             /\ OnLattice(i, its[i].first)
             /\ its[i].first - Step(i) > Len(items) - 1
             /\ ~iterator
        /\ BeforeBeginning(i) =>
             /\ its[i].first \in -Len(items) .. -1
             /\ OnLattice(i, its[i].first)
             /\ its[i].first - Step(i) < -Len(items)
             /\ ~iterator

\* C18, amended: a start past the end is corrected to the largest integer
\* <= L-1 of the form start + k * step (k >= 0), a start before the beginning
\* to the smallest integer >= -L of that form; the correction exhausts the
\* iterator.  (The result is a valid index only if the form has one.)
C18_StartCorrectionOnLattice ==
    \A i \in Slots :
        /\ PastEnd(i) =>
             /\ its[i].first <= Len(items) - 1
             /\ OnLattice(i, its[i].first)
             /\ its[i].first - Step(i) > Len(items) - 1
             /\ ~iterator
        /\ BeforeBeginning(i) =>
             /\ its[i].first >= -Len(items)
             /\ OnLattice(i, its[i].first)
             /\ its[i].first - Step(i) < -Len(items)
             /\ ~iterator

C18_Witness ==
    /\ PastEnd(1) /\ its[1].s.start = Some(2) /\ its[1].s.step = Some(-2)
    /\ Len(items) = 1 /\ its[1].first = 0 /\ its[1].out = << 10 >>
    /\ BeforeBeginning(2) /\ its[2].s.start = Some(-2) /\ its[2].first = -1

\* The object as __init__ leaves it.
Fresh == [buffer |-> << >>, read |-> 0, iterator |-> TRUE, nexts |-> 0]
Outcome(r) == << r.err, r.val >>
IterIndices == -(IterLen + Beyond) .. (IterLen + Beyond)

\* C20: for an unbounded buffer, what x[index], len(x) and a slice give does
\* not depend on what was done before: in every reachable state x[index] and
\* len(x) give what they give on a fresh object, and each of two generators
\* advanced in any interleaving yields what _islice yields when run alone on
\* a fresh object (and ends the same way).
C20_HistoryIndependence ==
    Unbounded =>
        /\ \A index \in IterIndices :
             Outcome(_get_item(Self, index)) = Outcome(_get_item(Fresh, index))
        /\ __len__(Self).ret = __len__(Fresh).ret
        /\ \A i \in Slots :
             LET Same(alone) ==
                    /\ Ended(i) => Outcome(alone) = << its[i].err, its[i].out >>
                    /\ its[i].status = "yielded" =>
                         /\ Len(its[i].out) <= Len(alone.val)
                         /\ its[i].out = SubSeq(alone.val, 1, Len(its[i].out))
             IN  its[i].status # "unused" => Same(_islice(Fresh, its[i].s))

C20_Witness ==
    /\ Unbounded /\ Len(items) = 2
    /\ its[1].status = "yielded" /\ its[1].out = << 20 >> /\ its[1].s.step = Some(-1)
    /\ its[2].status = "done" /\ its[2].out = << 10, 20 >> /\ read = 2

====
